---- MODULE Spec2Model ----
(***************************************************************************)
(* State-machine model of the lifecycle / health / telemetry core of the   *)
(* Sentinel API service (src/app/main.py and its split-out modules):       *)
(* the process-wide AppState record, the request interceptor               *)
(* (metrics_and_drain), the readiness query with its dependency probes,    *)
(* /prestop, the signal handler, the rate aggregator and the drain         *)
(* sequence on_shutdown.                                                    *)
(*                                                                         *)
(* The program runs on one asyncio event loop: code between two awaits is  *)
(* one atomic action, and every await is a point where other coroutines    *)
(* may run.  Time is a discrete clock `now`.  The sleeps whose length a     *)
(* property depends on (the poll of the drain loop, the delay of /prestop, *)
(* the period of the rate loop) hold a wake-up time, and the clock does    *)
(* not pass a wake-up time that is due.  The other awaits (a probe round   *)
(* trip under its timeout, the 0.3 s pause between attempts, the 0.02 s    *)
(* sleep of /predict, the close of a resource) end at any later step.      *)
(***************************************************************************)
EXTENDS Integers, Sequences, FiniteSets, TLC

\* ------------------------------------------------------------ bounds
\* Number of requests the dispatch layer delivers in one run.
MaxRequests == 2
\* Last value of the clock.
MaxTime == 6
\* The durations of the program, in clock ticks (scaled down so that the
\* whole drain fits in MaxTime; their order is the program's order:
\* poll interval < rate period < prestop delay < grace period).
PollInterval == 1
RatePeriod == 2
PrestopDelay == 3
Grace == 3

\* ------------------------------------------------------------ program constants
\* for i in range(3)
Attempts == 3

Requests == 1..MaxRequests
Paths == {"/live", "/ready", "/prestop", "/metrics", "/predict", "/work"}
\* inbound x-request-id header: absent, or a value chosen by the client
Headers == {"absent", "client-id"}
\* the bearer token of a /metrics request: absent, the configured one, another
Creds == {"absent", "secret", "wrong"}

VARIABLES
    \* AppState
    ready, shutting_down, active_requests,
    http, db_engine, redis,
    rate_window, rate_ts, rate_task,
    \* Settings (frozen after load_settings)
    database_url, redis_url, metrics_token,
    \* lifespan: has on_startup run; where on_shutdown stands
    started, drain_pc, deadline, drain_wake, release_log,
    \* history of the wait loop of on_shutdown, for the properties
    wait_log,
    \* the rate aggregator coroutine and the metrics sink; consumed: history,
    \* the sum of the accumulator values the ticks have read and reset
    rate_wake, gauge, consumed, predictions_total,
    \* the clock, and the uuid4 generator (a counter: every draw is fresh)
    now, uuid_next,
    \* the requests in the interceptor and their handlers
    req,
    \* the calls of the probes of app/deps.py
    probe

vars == <<ready, shutting_down, active_requests, http, db_engine, redis,
          rate_window, rate_ts, rate_task, database_url, redis_url,
          metrics_token, started, drain_pc, deadline, drain_wake,
          release_log, wait_log, rate_wake, gauge, consumed, predictions_total, now,
          uuid_next, req, probe>>

appState == <<ready, shutting_down, active_requests, http, db_engine, redis,
              rate_window, rate_ts, rate_task>>
settings == <<database_url, redis_url, metrics_token>>
drainVars == <<drain_pc, deadline, drain_wake, release_log, wait_log>>

\* A request before the dispatch layer has delivered it.
NewRequest ==
    [pc |-> "new", path |-> "/live", hdr |-> "absent", request_id |-> [kind |-> "none", n |-> 0],
     t0 |-> 0, wake |-> 0, i |-> 0, db_ok |-> FALSE, r_ok |-> FALSE,
     status |-> 0, body_ready |-> "none",
     \* the bearer token a /metrics request carried
     creds |-> "none",
     \* what the interceptor did on exit: increments of REQUEST_COUNT,
     \* observations of REQUEST_LATENCY, log records, the response header
     counted |-> 0, observed |-> 0, logged |-> 0,
     resp_id |-> [kind |-> "none", n |-> 0],
     \* history of the handler, for the properties: attempts made and failed
     \* by each probe, the ready flag the query read, what was going on then
     db_tries |-> 0, db_fails |-> 0, redis_tries |-> 0, redis_fails |-> 0,
     flag_read |-> "none", in_drain |-> FALSE, in_prestop |-> FALSE]

\* pcs at which the handler of a request is pending inside call_next
InHandler == {"called", "db_attempt", "db_pause", "redis_attempt",
              "redis_pause", "prestop_sleep", "predict_sleep",
              "returned", "raised"}
\* pcs at which a handler sleeps until its wake-up time
TimedPcs == {"prestop_sleep"}

\* zero_at, zero_last: the first and the last time active_requests became 0
\* while the wait loop was polling (zero_at: before its deadline only);
\* end_at, end_active: the time at which the loop ended and the count it
\* read then (-1: not yet)
NoWait == [zero_at |-> -1, zero_last |-> -1, end_at |-> -1, end_active |-> -1]

\* A probe of app/deps.py before a caller awaits it: the dependency it
\* checks, its attempts (made, failed) and the boolean it returned.
NoProbe == [pc |-> "idle", dep |-> "none", tries |-> 0, fails |-> 0,
            result |-> "none"]

\* AppState.__init__, load_settings: the state after the module is imported
Init ==
    /\ ready = TRUE
    /\ shutting_down = FALSE
    /\ active_requests = 0
    /\ http = FALSE
    /\ db_engine = FALSE
    /\ redis = FALSE
    /\ rate_window = 0
    /\ rate_ts = 0
    /\ rate_task = "none"
    /\ database_url \in BOOLEAN
    /\ redis_url \in BOOLEAN
    /\ metrics_token \in {"absent", "secret"}
    /\ started = FALSE
    /\ drain_pc = "idle"
    /\ deadline = 0
    /\ drain_wake = 0
    /\ release_log = <<>>
    /\ wait_log = NoWait
    /\ rate_wake = 0
    /\ gauge = <<0, 1>>
    /\ consumed = 0
    /\ predictions_total = 0
    /\ now = 0
    /\ uuid_next = 1
    /\ req = [r \in Requests |-> NewRequest]
    /\ probe = [c \in Requests |-> NoProbe]

\* on_startup: no await inside, one atomic step
on_startup ==
    /\ ~started
    /\ started' = TRUE
    /\ http' = TRUE
    /\ db_engine' = database_url
    /\ redis' = redis_url
    /\ rate_task' = "running"
    /\ rate_wake' = now + RatePeriod
    /\ UNCHANGED <<ready, shutting_down, active_requests, rate_window, rate_ts,
                   settings, probe, drainVars, gauge, consumed, predictions_total, now,
                   uuid_next, req>>

\* a handler that also cancels the rate task
handle_signal_cancels_rate ==
    /\ ready' = FALSE
    /\ shutting_down' = TRUE
    /\ rate_task' = IF rate_task = "running" THEN "cancelled" ELSE rate_task
    /\ UNCHANGED <<active_requests, http, db_engine, redis, rate_window,
                   rate_ts, settings, probe, started, drainVars,
                   rate_wake, gauge, consumed, predictions_total, now,
                   uuid_next, req>>

\* handle_signal(SIGTERM | SIGINT)
handle_signal ==
    /\ ready' = FALSE
    /\ shutting_down' = TRUE
    /\ UNCHANGED <<active_requests, http, db_engine, redis, rate_window,
                   rate_ts, rate_task, settings, probe, started, drainVars,
                   rate_wake, gauge, consumed, predictions_total, now, uuid_next, req>>

\* some sleeping coroutine is due now
TimerDue ==
    \/ drain_pc = "waiting" /\ drain_wake <= now
    \/ rate_task = "running" /\ rate_wake <= now
    \/ \E r \in Requests : req[r].pc \in TimedPcs /\ req[r].wake <= now

\* the clock advances; the event loop runs a due timer before later time
Tick ==
    /\ started
    /\ now < MaxTime
    /\ ~TimerDue
    /\ now' = now + 1
    /\ UNCHANGED <<appState, settings, probe, started, drainVars, rate_wake, gauge, consumed,
                   predictions_total, uuid_next, req>>

\* ------------------------------------------------------------ interceptor
\* request.headers.get("x-request-id", str(uuid.uuid4()))
RequestId(hdr) ==
    IF hdr = "absent" THEN [kind |-> "uuid", n |-> uuid_next]
                      ELSE [kind |-> "header", n |-> 0]

\* metrics_and_drain up to `await call_next(request)`: the dispatch layer
\* delivers request r (requests are numbered in the order they arrive)
\* and asks for one of the paths P with one of the headers H
middleware_enter(r, P, H) ==
    /\ started
    /\ drain_pc \notin {"done", "failed"}
    /\ req[r].pc = "new"
    /\ \A q \in Requests : q < r => req[q].pc # "new"
    /\ \E p \in P, h \in H :
         req' = [req EXCEPT ![r] = [@ EXCEPT !.pc = "called", !.path = p,
                                              !.hdr = h,
                                              !.request_id = RequestId(h)]]
    /\ uuid_next' = uuid_next + 1
    /\ active_requests' = active_requests + 1
    /\ UNCHANGED <<ready, shutting_down, http, db_engine, redis, rate_window,
                   rate_ts, rate_task, settings, probe, started, drainVars,
                   rate_wake, gauge, consumed, predictions_total, now>>

\* the code after the try/finally: REQUEST_COUNT.inc, REQUEST_LATENCY.observe,
\* log.info, response.headers[...] = request_id; reached when call_next returned
ExitAccounting(q) ==
    [q EXCEPT !.pc = "responded", !.counted = @ + 1, !.observed = @ + 1,
              !.logged = @ + 1, !.resp_id = q.request_id]

\* the exception of call_next leaves the coroutine after the finally block:
\* nothing below the try runs, and the server's error layer answers 500
\* with the headers it builds itself
ExitRaised(q) == [q EXCEPT !.pc = "errored", !.status = 500]

\* a try/except-free variant: the decrement is skipped when call_next raises
ActiveAfterExitNoFinally(n, pc) == IF pc = "raised" THEN n ELSE n - 1

\* the finally block: state.active_requests -= 1, whether call_next
\* returned or raised (pc)
ActiveAfterExit(n, pc) == n - 1

\* metrics_and_drain from the return (or the raise) of call_next to its end
middleware_exit(r) ==
    /\ req[r].pc \in {"returned", "raised"}
    /\ active_requests' = ActiveAfterExit(active_requests, req[r].pc)
    /\ req' = [req EXCEPT ![r] = IF @.pc = "returned"
                                 THEN ExitAccounting(@) ELSE ExitRaised(@)]
    /\ wait_log' = IF drain_pc = "waiting" /\ active_requests' = 0
                   THEN [wait_log EXCEPT
                           !.zero_last = now,
                           !.zero_at = IF @ = -1 /\ now < deadline THEN now ELSE @]
                   ELSE wait_log
    /\ UNCHANGED <<ready, shutting_down, http, db_engine, redis, rate_window,
                   rate_ts, rate_task, settings, probe, started, drain_pc, deadline,
                   drain_wake, release_log, rate_wake, gauge, consumed,
                   predictions_total, now, uuid_next>>

\* a handler returns its response to call_next
Returned(q, status) == [q EXCEPT !.pc = "returned", !.status = status,
                                 !.wake = 0, !.t0 = 0, !.i = 0]

reqFrame == <<appState, settings, probe, started, drainVars, rate_wake, gauge, consumed,
              predictions_total, now, uuid_next>>

\* ------------------------------------------------------------ plain handlers
\* GET /live
live(r) ==
    /\ req[r].pc = "called" /\ req[r].path = "/live"
    /\ req' = [req EXCEPT ![r] = Returned(@, 200)]
    /\ UNCHANGED reqFrame

\* a business endpoint outside the core: it answers, or it raises
work(r) ==
    /\ req[r].pc = "called" /\ req[r].path = "/work"
    /\ \/ req' = [req EXCEPT ![r] = Returned(@, 200)]
       \/ req' = [req EXCEPT ![r] = [@ EXCEPT !.pc = "raised"]]
    /\ UNCHANGED reqFrame

\* a /prestop request is being handled and has not produced its response
PrestopPending ==
    \E p \in Requests : req[p].path = "/prestop" /\ req[p].pc = "prestop_sleep"

\* GET /metrics: HTTPException(403) becomes a 403 response inside call_next
\* a check that accepts any bearer token
MetricsStatusAnyToken(token, creds) ==
    IF token # "absent" /\ creds = "absent" THEN 403 ELSE 200

MetricsStatus(token, creds) ==
    IF token # "absent" /\ (creds = "absent" \/ creds # token) THEN 403 ELSE 200

metrics(r) ==
    /\ req[r].pc = "called" /\ req[r].path = "/metrics"
    /\ \E c \in Creds :
         req' = [req EXCEPT ![r] =
                   [Returned(@, MetricsStatus(metrics_token, c)) EXCEPT
                       !.creds = c,
                       !.in_drain = drain_pc # "idle",
                       !.in_prestop = PrestopPending]]
    /\ UNCHANGED reqFrame

\* POST /predict up to `await asyncio.sleep(0.02)`
predict(r) ==
    /\ req[r].pc = "called" /\ req[r].path = "/predict"
    /\ req' = [req EXCEPT ![r] = [@ EXCEPT !.pc = "predict_sleep"]]
    /\ UNCHANGED reqFrame

\* a record that stores the amount instead of adding it
RecordPredictionStore(w, n) == n

\* record_prediction(n): state._rate_window += n (no await: the read, the add
\* and the store are one step of the event loop)
RecordPrediction(w, n) == w + n

\* POST /predict after the sleep: record_prediction(), return {"score": 0.42}
predict_resume(r) ==
    /\ req[r].pc = "predict_sleep"
    /\ rate_window' = RecordPrediction(rate_window, 1)
    /\ predictions_total' = predictions_total + 1
    /\ req' = [req EXCEPT ![r] = Returned(@, 200)]
    /\ UNCHANGED <<ready, shutting_down, active_requests, http, db_engine,
                   redis, rate_ts, rate_task, settings, probe, started, drainVars,
                   rate_wake, gauge, consumed, now, uuid_next>>

\* a /prestop that does not wait
PrestopNoDelay(q) == [q EXCEPT !.pc = "prestop_sleep", !.t0 = now,
                               !.wake = now]

\* await asyncio.sleep(8.0)
PrestopSleep(q) == [q EXCEPT !.pc = "prestop_sleep", !.t0 = now,
                             !.wake = now + PrestopDelay]

\* GET /prestop up to `await asyncio.sleep(8.0)`
prestop(r) ==
    /\ req[r].pc = "called" /\ req[r].path = "/prestop"
    /\ ready' = FALSE
    /\ req' = [req EXCEPT ![r] = PrestopSleep(@)]
    /\ UNCHANGED <<shutting_down, active_requests, http, db_engine, redis,
                   rate_window, rate_ts, rate_task, settings, probe, started,
                   drainVars, rate_wake, gauge, consumed, predictions_total, now,
                   uuid_next>>

\* a /prestop that sets the flag back once its delay is over
prestop_resume_restores(r) ==
    /\ req[r].pc = "prestop_sleep" /\ req[r].wake <= now
    /\ req' = [req EXCEPT ![r] = Returned(@, 200)]
    /\ ready' = TRUE
    /\ UNCHANGED <<shutting_down, active_requests, http, db_engine, redis,
                   rate_window, rate_ts, rate_task, settings, probe, started,
                   drainVars, rate_wake, gauge, consumed, predictions_total,
                   now, uuid_next>>

\* GET /prestop after the sleep
prestop_resume(r) ==
    /\ req[r].pc = "prestop_sleep" /\ req[r].wake <= now
    /\ req' = [req EXCEPT ![r] = Returned(@, 200)]
    /\ UNCHANGED reqFrame


\* ------------------------------------------------------------ readiness
\* a verdict that is the OR of the probe results
ReadyStatusOr(db_ok, r_ok) == IF db_ok \/ r_ok THEN 200 ELSE 503

\* ready(): ok = db_ok and r_ok; 503 unless ok
ReadyStatus(db_ok, r_ok) == IF db_ok /\ r_ok THEN 200 ELSE 503

\* ready() from the result of check_redis to its return
ReadyVerdict(q, db_ok, r_ok) ==
    [Returned(q, ReadyStatus(db_ok, r_ok)) EXCEPT
        !.db_ok = db_ok, !.r_ok = r_ok,
        !.body_ready = IF db_ok /\ r_ok THEN "true" ELSE "false"]

\* one attempt of a probe starts: asyncio.wait_for(..., SETTINGS.dep_timeout)
StartAttempt(q, pc, i) ==
    [q EXCEPT !.pc = pc, !.i = i,
              !.db_tries = IF pc = "db_attempt" THEN @ + 1 ELSE @,
              !.redis_tries = IF pc = "redis_attempt" THEN @ + 1 ELSE @]

\* check_redis(): `if not state.redis: return True`, else the first attempt
CheckRedis(q, db_ok) ==
    IF ~redis THEN ReadyVerdict(q, db_ok, TRUE)
    ELSE StartAttempt([q EXCEPT !.db_ok = db_ok], "redis_attempt", 0)

\* a probe that takes a missing dependency for a failing one
CheckDbAbsentFails(q) ==
    IF ~db_engine THEN CheckRedis(q, FALSE)
    ELSE StartAttempt(q, "db_attempt", 0)

\* check_db(): `if not state.db_engine: return True`, else the first attempt
CheckDb(q) ==
    IF ~db_engine THEN CheckRedis(q, TRUE)
    ELSE StartAttempt(q, "db_attempt", 0)

\* ready(): `if not state.ready` answers 503 "draining" without any probe
ReadyHandler(q) ==
    IF ~ready
    THEN [Returned(q, 503) EXCEPT !.body_ready = "false"]
    ELSE CheckDb(q)

\* GET /ready up to its first await (or to its return when nothing is awaited)
ready_query(r) ==
    /\ req[r].pc = "called" /\ req[r].path = "/ready"
    /\ req' = [req EXCEPT ![r] =
                 ReadyHandler([@ EXCEPT !.flag_read = IF ready THEN "true" ELSE "false",
                                        !.in_drain = drain_pc # "idle",
                                        !.in_prestop = PrestopPending])]
    /\ UNCHANGED reqFrame

\* `except Exception` of an attempt: the last attempt gives up, the others pause
\* a loop that gives up one attempt early
GivesUpEarly(i) == i >= Attempts - 2

\* `if i == 2` under `for i in range(3)`
GivesUp(i) == i = Attempts - 1

AttemptFailed(q, pause) ==
    IF GivesUp(q.i)
    THEN IF pause = "db_pause" THEN CheckRedis(q, FALSE)
                               ELSE ReadyVerdict(q, q.db_ok, FALSE)
    ELSE [q EXCEPT !.pc = pause]

\* the round trip of a check_db attempt ends within the timeout: return True
db_attempt_ok(r) ==
    /\ req[r].pc = "db_attempt"
    /\ req' = [req EXCEPT ![r] = CheckRedis(@, TRUE)]
    /\ UNCHANGED reqFrame

\* the round trip of a check_db attempt raises, or wait_for times out
db_attempt_fail(r) ==
    /\ req[r].pc = "db_attempt"
    /\ req' = [req EXCEPT ![r] =
                 AttemptFailed([@ EXCEPT !.db_fails = @ + 1], "db_pause")]
    /\ UNCHANGED reqFrame

\* check_db after `await asyncio.sleep(0.3)`: the next attempt
db_retry(r) ==
    /\ req[r].pc = "db_pause"
    /\ req' = [req EXCEPT ![r] = StartAttempt(@, "db_attempt", @.i + 1)]
    /\ UNCHANGED reqFrame

\* the round trip of a check_redis attempt ends within the timeout
redis_attempt_ok(r) ==
    /\ req[r].pc = "redis_attempt"
    /\ req' = [req EXCEPT ![r] = ReadyVerdict(@, @.db_ok, TRUE)]
    /\ UNCHANGED reqFrame

\* the round trip of a check_redis attempt raises, or wait_for times out
redis_attempt_fail(r) ==
    /\ req[r].pc = "redis_attempt"
    /\ req' = [req EXCEPT ![r] =
                 AttemptFailed([@ EXCEPT !.redis_fails = @ + 1], "redis_pause")]
    /\ UNCHANGED reqFrame

\* check_redis after `await asyncio.sleep(0.3)`: the next attempt
redis_retry(r) ==
    /\ req[r].pc = "redis_pause"
    /\ req' = [req EXCEPT ![r] = StartAttempt(@, "redis_attempt", @.i + 1)]
    /\ UNCHANGED reqFrame

\* ------------------------------------------------------------ app/deps.py
\* The probes of the package layout (app/deps.py), awaited by callers c.
\* db_engine is set only when sqlalchemy was imported, so `not text` is
\* false whenever `not state.db_engine` is.
DepConfigured(dep) == IF dep = "db" THEN db_engine ELSE redis

\* check_db / check_redis: `if not state.<dep>: return True`, else the one
\* round trip under asyncio.wait_for
DepsCheck(dep) ==
    IF ~DepConfigured(dep)
    THEN [pc |-> "done", dep |-> dep, tries |-> 0, fails |-> 0, result |-> "true"]
    ELSE [pc |-> "attempt", dep |-> dep, tries |-> 1, fails |-> 0, result |-> "none"]

\* a caller awaits check_db() or check_redis()
deps_check(c) ==
    /\ started
    /\ probe[c].pc = "idle"
    /\ \E dep \in {"db", "redis"} : probe' = [probe EXCEPT ![c] = DepsCheck(dep)]
    /\ UNCHANGED <<appState, settings, started, drainVars, rate_wake, gauge, consumed,
                   predictions_total, now, uuid_next, req>>

\* the round trip ends within the timeout: return True
deps_attempt_ok(c) ==
    /\ probe[c].pc = "attempt"
    /\ probe' = [probe EXCEPT ![c] = [@ EXCEPT !.pc = "done", !.result = "true"]]
    /\ UNCHANGED <<appState, settings, started, drainVars, rate_wake, gauge, consumed,
                   predictions_total, now, uuid_next, req>>

\* the round trip raises or times out: `except Exception: return False`
deps_attempt_fail(c) ==
    /\ probe[c].pc = "attempt"
    /\ probe' = [probe EXCEPT ![c] = [@ EXCEPT !.pc = "done", !.fails = @ + 1,
                                               !.result = "false"]]
    /\ UNCHANGED <<appState, settings, started, drainVars, rate_wake, gauge, consumed,
                   predictions_total, now, uuid_next, req>>

\* ------------------------------------------------------------ rate aggregator
\* 1e-6, the floor of the elapsed time, as the number of floors in one
\* unit of the clock
Micro == 1000000

\* an elapsed time measured from the start of the process
ElapsedSinceStart(t, ts) == IF t * Micro > 1 THEN t * Micro ELSE 1

\* max(now - state._rate_ts, 1e-6), in units of 1e-6
Elapsed(t, ts) == IF (t - ts) * Micro > 1 THEN (t - ts) * Micro ELSE 1

\* a rate loop that the cancel does not reach: it ticks on after it
rate_loop_ignores_cancel ==
    /\ rate_task \in {"running", "cancelled"} /\ rate_wake <= now
    /\ gauge' = <<rate_window, Elapsed(now, rate_ts)>>
    /\ consumed' = consumed + rate_window
    /\ rate_window' = 0
    /\ rate_ts' = now
    /\ rate_wake' = now + RatePeriod
    /\ UNCHANGED <<ready, shutting_down, active_requests, http, db_engine,
                   redis, rate_task, settings, probe, started, drainVars,
                   predictions_total, now, uuid_next, req>>

\* rate_loop after `await asyncio.sleep(1)`: one tick, no await inside.  The
\* gauge holds the rate as the fraction <<count, elapsed>>.
rate_loop ==
    /\ rate_task = "running" /\ rate_wake <= now
    /\ gauge' = <<rate_window, Elapsed(now, rate_ts)>>
    /\ consumed' = consumed + rate_window
    /\ rate_window' = 0
    /\ rate_ts' = now
    /\ rate_wake' = now + RatePeriod
    /\ UNCHANGED <<ready, shutting_down, active_requests, http, db_engine,
                   redis, rate_task, settings, probe, started, drainVars,
                   predictions_total, now, uuid_next, req>>


\* ------------------------------------------------------------ drain
\* a loop that keeps polling while the count is 0 (>= for >)
LoopConditionOffByOne(n, t, dl) == n >= 0 /\ t < dl

\* a loop that never looks at the deadline
LoopConditionNoDeadline(n, t, dl) == n > 0

\* while state.active_requests > 0 and time.time() < deadline
LoopCondition(n, t, dl) == n > 0 /\ t < dl

\* if state.db_engine: state.db_engine.dispose()    (no await: it ends or raises here)
ReleaseDb(log) ==
    IF db_engine
    THEN /\ release_log' = Append(log, "db")
         /\ drain_pc' \in {"done", "failed"}
    ELSE /\ release_log' = log
         /\ drain_pc' = "done"

\* a sequence that disposes the pool before it closes the cache
ReleaseRedisAfterDb(log) ==
    IF redis
    THEN /\ release_log' = (IF db_engine THEN Append(log, "db") ELSE log) \o <<"redis">>
         /\ drain_pc' = "closing_redis"
    ELSE ReleaseDb(log)

\* if state.redis: await state.redis.close()
ReleaseRedis(log) ==
    IF redis
    THEN /\ release_log' = Append(log, "redis")
         /\ drain_pc' = "closing_redis"
    ELSE ReleaseDb(log)

\* if state.http: await state.http.aclose()
ReleaseHttp(log) ==
    IF http
    THEN /\ release_log' = Append(log, "http")
         /\ drain_pc' = "closing_http"
    ELSE ReleaseRedis(log)

\* one evaluation of the while condition of on_shutdown against deadline dl,
\* and what follows it without an await: another sleep(0.1), or the cancel of
\* the rate task and the first release
WaitLoop(dl) ==
    IF LoopCondition(active_requests, now, dl)
    THEN /\ drain_pc' = "waiting"
         /\ drain_wake' = now + PollInterval
         /\ UNCHANGED <<rate_task, release_log, wait_log>>
    ELSE /\ rate_task' = IF rate_task # "none" THEN "cancelled" ELSE rate_task
         /\ ReleaseHttp(Append(release_log, "cancel"))
         /\ wait_log' = [wait_log EXCEPT !.end_at = now,
                                         !.end_active = active_requests]
         /\ UNCHANGED drain_wake

drainFrame == <<ready, shutting_down, active_requests, http, db_engine, redis,
                rate_window, rate_ts, settings, probe, started, rate_wake, gauge, consumed,
                predictions_total, now, uuid_next, req>>

\* on_shutdown from its call by the lifespan to its first await
on_shutdown ==
    /\ started
    /\ drain_pc = "idle"
    /\ deadline' = now + Grace
    /\ WaitLoop(now + Grace)
    /\ UNCHANGED drainFrame

\* on_shutdown after `await asyncio.sleep(0.1)`
drain_poll ==
    /\ drain_pc = "waiting" /\ drain_wake <= now
    /\ WaitLoop(deadline)
    /\ UNCHANGED <<deadline, drainFrame>>

\* `await state.http.aclose()` ends: it returns, or it raises out of on_shutdown
http_closed ==
    /\ drain_pc = "closing_http"
    /\ \/ ReleaseRedis(release_log)
       \/ drain_pc' = "failed" /\ UNCHANGED release_log
    /\ UNCHANGED <<rate_task, deadline, drain_wake, wait_log, drainFrame>>

\* `await state.redis.close()` ends: it returns, or it raises out of on_shutdown
redis_closed ==
    /\ drain_pc = "closing_redis"
    /\ \/ ReleaseDb(release_log)
       \/ drain_pc' = "failed" /\ UNCHANGED release_log
    /\ UNCHANGED <<rate_task, deadline, drain_wake, wait_log, drainFrame>>

\* ------------------------------------------------------------ specification
Next ==
    \/ on_startup
    \/ handle_signal
    \/ Tick
    \/ \E r \in Requests : middleware_enter(r, Paths, Headers)
    \/ \E r \in Requests : middleware_exit(r)
    \/ \E r \in Requests : live(r)
    \/ \E r \in Requests : work(r)
    \/ \E r \in Requests : metrics(r)
    \/ \E r \in Requests : predict(r)
    \/ \E r \in Requests : predict_resume(r)
    \/ \E r \in Requests : prestop(r)
    \/ \E r \in Requests : prestop_resume(r)
    \/ \E r \in Requests : ready_query(r)
    \/ \E r \in Requests : db_attempt_ok(r)
    \/ \E r \in Requests : db_attempt_fail(r)
    \/ \E r \in Requests : db_retry(r)
    \/ \E r \in Requests : redis_attempt_ok(r)
    \/ \E r \in Requests : redis_attempt_fail(r)
    \/ \E r \in Requests : redis_retry(r)
    \/ rate_loop
    \/ on_shutdown
    \/ drain_poll
    \/ http_closed
    \/ redis_closed
    \/ \E c \in Requests : deps_check(c)
    \/ \E c \in Requests : deps_attempt_ok(c)
    \/ \E c \in Requests : deps_attempt_fail(c)

Spec == Init /\ [][Next]_vars


\* ------------------------------------------------------------ environments
\* The same machine under the kinds of traffic the properties are about.

\* Traffic on the endpoints that touch neither the readiness flag nor a
\* dependency, with no lifecycle event: the interceptor alone.
InitTraffic == Init /\ ~database_url /\ ~redis_url

NextTraffic ==
    \/ on_startup
    \/ \E r \in Requests :
         middleware_enter(r, {"/live", "/work", "/metrics", "/predict"}, Headers)
    \/ \E r \in Requests : middleware_exit(r)
    \/ \E r \in Requests : live(r)
    \/ \E r \in Requests : work(r)
    \/ \E r \in Requests : metrics(r)
    \/ \E r \in Requests : predict(r)
    \/ \E r \in Requests : predict_resume(r)

SpecTraffic == InitTraffic /\ [][NextTraffic]_vars

\* Readiness queries with their probes, while /prestop calls and termination
\* signals clear the flag; the clock stands still (no /prestop delay ends).
InitReady == Init /\ metrics_token = "absent"

NextReady ==
    \/ on_startup
    \/ handle_signal
    \/ \E r \in Requests : middleware_enter(r, {"/ready", "/prestop"}, {"absent"})
    \/ \E r \in Requests : middleware_exit(r)
    \/ \E r \in Requests : prestop(r)
    \/ \E r \in Requests : ready_query(r)
    \/ \E r \in Requests : db_attempt_ok(r)
    \/ \E r \in Requests : db_attempt_fail(r)
    \/ \E r \in Requests : db_retry(r)
    \/ \E r \in Requests : redis_attempt_ok(r)
    \/ \E r \in Requests : redis_attempt_fail(r)
    \/ \E r \in Requests : redis_retry(r)

SpecReady == InitReady /\ [][NextReady]_vars

\* The probes of app/deps.py, called while termination signals arrive.
InitDeps == Init /\ metrics_token = "absent"

NextDeps ==
    \/ on_startup
    \/ handle_signal
    \/ \E c \in Requests : deps_check(c)
    \/ \E c \in Requests : deps_attempt_ok(c)
    \/ \E c \in Requests : deps_attempt_fail(c)

SpecDeps == InitDeps /\ [][NextDeps]_vars

\* /prestop calls and readiness queries on the clock; the cache is the one
\* dependency that may be configured.
InitPrestop == Init /\ metrics_token = "absent" /\ ~database_url

NextPrestop ==
    \/ on_startup
    \/ handle_signal
    \/ Tick
    \/ rate_loop
    \/ \E r \in Requests : middleware_enter(r, {"/ready", "/prestop"}, {"absent"})
    \/ \E r \in Requests : middleware_exit(r)
    \/ \E r \in Requests : prestop(r)
    \/ \E r \in Requests : prestop_resume(r)
    \/ \E r \in Requests : ready_query(r)
    \/ \E r \in Requests : redis_attempt_ok(r)
    \/ \E r \in Requests : redis_attempt_fail(r)
    \/ \E r \in Requests : redis_retry(r)

SpecPrestop == InitPrestop /\ [][NextPrestop]_vars

\* The drain sequence under business traffic.
InitDrain == Init /\ metrics_token = "absent"

NextDrain ==
    \/ on_startup
    \/ Tick
    \/ rate_loop
    \/ \E r \in Requests : middleware_enter(r, {"/work"}, {"absent"})
    \/ \E r \in Requests : middleware_exit(r)
    \/ \E r \in Requests : work(r)
    \/ on_shutdown
    \/ drain_poll
    \/ http_closed
    \/ redis_closed

SpecDrain == InitDrain /\ [][NextDrain]_vars

\* The drain sequence under readiness queries; the cache is the one
\* dependency that may be configured.
InitShutdown == Init /\ metrics_token = "absent" /\ ~database_url

NextShutdown ==
    \/ on_startup
    \/ Tick
    \/ rate_loop
    \/ \E r \in Requests : middleware_enter(r, {"/ready"}, {"absent"})
    \/ \E r \in Requests : middleware_exit(r)
    \/ \E r \in Requests : ready_query(r)
    \/ \E r \in Requests : redis_attempt_ok(r)
    \/ \E r \in Requests : redis_attempt_fail(r)
    \/ \E r \in Requests : redis_retry(r)
    \/ on_shutdown
    \/ drain_poll
    \/ http_closed
    \/ redis_closed

SpecShutdown == InitShutdown /\ [][NextShutdown]_vars

\* Predictions against the rate aggregator on the clock, while /prestop
\* calls, termination signals and the drain sequence go on; no dependency is
\* configured.
InitRate == Init /\ metrics_token = "absent" /\ ~database_url /\ ~redis_url

NextRate ==
    \/ on_startup
    \/ handle_signal
    \/ Tick
    \/ rate_loop
    \/ \E r \in Requests : middleware_enter(r, {"/predict", "/prestop"}, {"absent"})
    \/ \E r \in Requests : middleware_exit(r)
    \/ \E r \in Requests : predict(r)
    \/ \E r \in Requests : predict_resume(r)
    \/ \E r \in Requests : prestop(r)
    \/ \E r \in Requests : prestop_resume(r)
    \/ on_shutdown
    \/ drain_poll
    \/ http_closed

SpecRate == InitRate /\ [][NextRate]_vars

\* /metrics requests while /prestop calls, termination signals and the
\* drain sequence change the lifecycle state; the clock stands still and no
\* dependency is configured.
InitMetrics == Init /\ ~database_url /\ ~redis_url

NextMetrics ==
    \/ on_startup
    \/ handle_signal
    \/ \E r \in Requests : middleware_enter(r, {"/metrics", "/prestop"}, {"absent"})
    \/ \E r \in Requests : middleware_exit(r)
    \/ \E r \in Requests : metrics(r)
    \/ \E r \in Requests : prestop(r)
    \/ on_shutdown
    \/ http_closed

SpecMetrics == InitMetrics /\ [][NextMetrics]_vars

\* Every operation that reads or writes the ready flag or runs beside it:
\* requests through the interceptor (readiness queries and /prestop calls),
\* termination signals, rate ticks and the drain sequence, on the clock; no
\* dependency is configured.
InitLifecycle == Init /\ metrics_token = "absent" /\ ~database_url /\ ~redis_url

NextLifecycle ==
    \/ on_startup
    \/ handle_signal
    \/ Tick
    \/ rate_loop
    \/ \E r \in Requests : middleware_enter(r, {"/ready", "/prestop"}, {"absent"})
    \/ \E r \in Requests : middleware_exit(r)
    \/ \E r \in Requests : ready_query(r)
    \/ \E r \in Requests : prestop(r)
    \/ \E r \in Requests : prestop_resume(r)
    \/ on_shutdown
    \/ drain_poll
    \/ http_closed

SpecLifecycle == InitLifecycle /\ [][NextLifecycle]_vars

\* ------------------------------------------------------------ properties
\* requests whose handler is pending between the increment and the decrement
InFlight == {r \in Requests : req[r].pc \in InHandler}
\* requests the interceptor is done with
Ended == {r \in Requests : req[r].pc \in {"responded", "errored"}}
\* readiness queries whose handler has answered
Answered == {r \in Requests : req[r].path = "/ready"
                              /\ req[r].pc \in {"returned", "responded"}}

\* C1: under every interleaving of request starts and ends, raising handlers
\* included, active_requests is never negative, equals the number of
\* requests that entered the interceptor and have not left it, and is 0
\* whenever every started request has ended.
C1_ActiveRequests ==
    /\ active_requests >= 0
    /\ active_requests = Cardinality(InFlight)
    /\ (\A r \in Requests : req[r].pc \in {"new", "responded", "errored"})
         => active_requests = 0

\* a request whose handler raised has left while another is still in flight
C1_Witness ==
    \E r, q \in Requests :
        /\ req[r].pc = "errored"
        /\ req[q].pc \in InHandler
        /\ active_requests = 1

\* C4: every request that has left the interceptor, one whose handler raised
\* included, was counted once, observed once and logged once.
C4_ExitAccounting ==
    \A r \in Ended :
        req[r].counted = 1 /\ req[r].observed = 1 /\ req[r].logged = 1

\* C2: once on_shutdown has been invoked, every readiness query answers 503.
\* (in_drain: on_shutdown had been invoked when the handler of the query ran)
C2_DrainNotReady ==
    \A r \in Answered : req[r].in_drain => req[r].status = 503

\* the resources on_startup configured, by the name of their release
Configured ==
    {x \in {"http", "redis", "db"} :
        \/ x = "http" /\ http
        \/ x = "redis" /\ redis
        \/ x = "db" /\ db_engine}

Attempted == {release_log[k] : k \in 1..Len(release_log)}

\* C3: when on_shutdown ends, by its return or by the exception of a failed
\* release, the release of every configured resource has been attempted.
C3_AllReleased ==
    drain_pc \in {"done", "failed"} => Configured \subseteq Attempted

\* C5 as stated: from the first time active_requests reaches 0 before the
\* deadline while the wait loop polls, the loop ends at the next poll, at
\* most one polling interval later, and before the deadline.
C5_ExitsAtNextPoll ==
    wait_log.zero_at # -1 =>
        /\ drain_pc = "waiting" => /\ now <= wait_log.zero_at + PollInterval
                                   /\ now < deadline
        /\ wait_log.end_at # -1 => /\ wait_log.end_at <= wait_log.zero_at + PollInterval
                                   /\ wait_log.end_at < deadline

\* C5 amended: the wait loop ends at the first poll that reads
\* active_requests = 0.  While the loop waits with a count of 0, at most one
\* polling interval has passed since the count became 0, and a loop that
\* ended on a count of 0 ended at most one interval after the count last
\* became 0, whatever is left of the grace period; the drain has then gone
\* on to the cancel and the releases.
C5_ExitsOnZeroPoll ==
    /\ (drain_pc = "waiting" /\ active_requests = 0) =>
          /\ wait_log.zero_last # -1
          /\ now <= wait_log.zero_last + PollInterval
    /\ (wait_log.end_active = 0 /\ wait_log.zero_last # -1) =>
          wait_log.end_at <= wait_log.zero_last + PollInterval
    /\ wait_log.end_at # -1 =>
          /\ drain_pc \notin {"idle", "waiting"}
          /\ Len(release_log) >= 1 /\ release_log[1] = "cancel"

\* the count reached 0 during the wait and the loop ended on it with grace
\* period left
C5_Witness ==
    /\ wait_log.zero_last # -1
    /\ wait_log.end_active = 0
    /\ wait_log.end_at < deadline - 1
    /\ drain_pc \in {"closing_http", "done"}

\* C6: the wait loop ends even if active_requests stays above 0: a poll
\* that still waits was taken before the deadline, the loop is over less
\* than one polling interval after the deadline, a loop that ended with
\* requests in flight ended at the first poll at or after the deadline,
\* and the drain has then gone on to the cancel and the releases.
C6_DeadlineEndsWait ==
    /\ drain_pc = "waiting" =>
          /\ drain_wake - PollInterval < deadline
          /\ now <= drain_wake
          /\ now < deadline + PollInterval
    /\ wait_log.end_at # -1 =>
          /\ wait_log.end_at < deadline + PollInterval
          /\ wait_log.end_active > 0 => wait_log.end_at >= deadline
          /\ drain_pc \notin {"idle", "waiting"}
          /\ Len(release_log) >= 1 /\ release_log[1] = "cancel"

\* the loop ended on the deadline with a request still in flight
C6_Witness ==
    /\ wait_log.end_active > 0
    /\ wait_log.end_at >= deadline
    /\ active_requests > 0
    /\ drain_pc \in {"closing_http", "closing_redis", "done", "failed"}


\* readiness queries that read ready = true and went on to the probes
Probing == {r \in Requests : req[r].path = "/ready" /\ req[r].flag_read = "true"}

\* what the round trips of a probe say: healthy when the dependency is not
\* configured or when an attempt did not fail
DbHealthy(q) == ~db_engine \/ q.db_fails < q.db_tries
RedisHealthy(q) == ~redis \/ q.redis_fails < q.redis_tries

\* C7: a probe makes at most 3 attempts, stops at the first attempt that
\* succeeds and reports unhealthy only after 3 failed attempts; a probe that
\* failed 3 times makes the query answer not-ready, and a probe that failed
\* once and then succeeded, the other probe being healthy, makes it answer
\* ready.
C7_ProbeRetries ==
    \A r \in Probing :
      LET q == req[r] IN
        /\ q.db_tries <= Attempts /\ q.redis_tries <= Attempts
        /\ q.db_tries - q.db_fails \in {0, 1}
        /\ q.redis_tries - q.redis_fails \in {0, 1}
        /\ q.pc \in {"db_attempt", "db_pause"} => q.db_fails = q.i + (IF q.pc = "db_pause" THEN 1 ELSE 0)
        /\ q.pc \in {"db_pause", "redis_pause"} => q.i < Attempts - 1
        /\ r \in Answered =>
             /\ db_engine => /\ q.db_ok = (q.db_fails < q.db_tries)
                             /\ ~q.db_ok => q.db_fails = Attempts
                             /\ q.db_tries >= 1
             /\ redis => /\ q.r_ok = (q.redis_fails < q.redis_tries)
                         /\ ~q.r_ok => q.redis_fails = Attempts
                         /\ q.redis_tries >= 1
             /\ (q.db_fails = Attempts \/ q.redis_fails = Attempts)
                   => q.status = 503 /\ q.body_ready = "false"
             /\ (q.db_fails = 1 /\ q.db_tries = 2 /\ RedisHealthy(q))
                   => q.status = 200 /\ q.body_ready = "true"
             /\ (q.redis_fails = 1 /\ q.redis_tries = 2 /\ DbHealthy(q))
                   => q.status = 200 /\ q.body_ready = "true"

\* C7 for the probes of app/deps.py: a probe of a configured dependency
\* reports unhealthy only after 3 failed attempts.
C7_DepsProbeRetries ==
    \A c \in Requests :
        (probe[c].pc = "done" /\ probe[c].result = "false") =>
            probe[c].fails = Attempts

\* one query found the database failing on all 3 attempts and answered
\* not-ready, another saw it fail once, then succeed, and answered ready
C7_Witness ==
    \E r, p \in Answered :
        /\ req[r].db_fails = Attempts /\ req[r].status = 503
        /\ req[p].db_fails = 1 /\ req[p].db_tries = 2 /\ req[p].status = 200

\* C8: a query that read ready = true runs every probe, also after an
\* unhealthy one; its verdict is the AND of the probe results, and its
\* status is 200 exactly when the verdict is true, 503 otherwise.
C8_VerdictIsAnd ==
    \A r \in Probing \cap Answered :
      LET q == req[r] IN
        /\ db_engine => q.db_tries >= 1
        /\ redis => q.redis_tries >= 1
        /\ (q.body_ready = "true") = (DbHealthy(q) /\ RedisHealthy(q))
        /\ q.body_ready \in {"true", "false"}
        /\ q.status = IF q.body_ready = "true" THEN 200 ELSE 503

\* the database probe gave up, the cache probe still ran and was healthy,
\* and the query answered 503
C8_Witness ==
    \E r \in Probing \cap Answered :
        /\ req[r].db_fails = Attempts
        /\ redis /\ req[r].redis_tries >= 1 /\ RedisHealthy(req[r])
        /\ req[r].status = 503

\* C9: the probe of a dependency that was never configured makes no round
\* trip and reports healthy, whatever the lifecycle state; with no
\* dependency configured a query that read ready = true answers 200, ready.
C9_AbsentIsHealthy ==
    /\ \A r \in Requests :
         /\ ~db_engine => req[r].db_tries = 0
         /\ ~redis => req[r].redis_tries = 0
    /\ \A r \in Probing :
         /\ (~db_engine /\ req[r].pc # "called") =>
               req[r].pc \in {"redis_attempt", "redis_pause", "returned", "responded"}
         /\ r \in Answered =>
              /\ ~db_engine => req[r].db_ok
              /\ ~redis => req[r].r_ok
              /\ (~db_engine /\ ~redis) =>
                    req[r].status = 200 /\ req[r].body_ready = "true"

\* no dependency is configured and a query has been answered 200, ready
C9_Witness ==
    /\ started /\ ~db_engine /\ ~redis
    /\ \E r \in Requests :
         /\ req[r].path = "/ready" /\ req[r].pc = "responded"
         /\ req[r].status = 200 /\ req[r].body_ready = "true"

\* C10: /prestop clears ready before its delay starts and answers only when
\* the delay has elapsed; a readiness query whose handler runs while a
\* /prestop request is between the two answers 503 at once.
C10_Step ==
    /\ \A p \in Requests :
         /\ (req[p].pc = "called" /\ req'[p].pc = "prestop_sleep") =>
               ~ready' /\ req'[p].t0 = now
         /\ (req[p].pc = "prestop_sleep" /\ req'[p].pc # "prestop_sleep") =>
               /\ now >= req[p].t0 + PrestopDelay
               /\ req'[p].pc = "returned" /\ req'[p].status = 200
         /\ req'[p].pc = "prestop_sleep" => ~ready'
    /\ \A r \in Requests :
         (req'[r].path = "/ready" /\ req'[r].in_prestop) =>
               /\ req'[r].pc \in {"returned", "responded"}
               /\ req'[r].status = 503 /\ req'[r].body_ready = "false"

C10_PrestopDelay == [][C10_Step]_vars

\* a /prestop request has answered after its delay, and a readiness query
\* handled during the delay was answered 503
C10_Witness ==
    \E p, r \in Requests :
        /\ req[p].path = "/prestop" /\ req[p].pc \in {"returned", "responded"}
        /\ req[p].status = 200 /\ now >= PrestopDelay
        /\ req[r].path = "/ready" /\ req[r].in_prestop /\ req[r].status = 503

\* C11: under every interleaving of record_prediction calls with ticks of
\* the rate aggregator no recorded unit is lost: the accumulator values the
\* ticks have consumed so far plus the current accumulator value equal the
\* lifetime total predictions_total.
C11_NoLostRecord ==
    /\ consumed + rate_window = predictions_total
    /\ rate_window >= 0

\* two predictions slept across a tick that consumed an earlier record:
\* a unit has been consumed, another is in the accumulator
C11_Witness ==
    /\ consumed >= 1
    /\ rate_window >= 1
    /\ predictions_total = MaxRequests

\* C12: each tick publishes to the gauge the accumulator value C over the
\* time T elapsed since the previous tick, T being at least the floor 1e-6
\* (the division never fails), then resets the accumulator to 0 and sets the
\* last-tick timestamp to now; a tick with no work recorded since the
\* previous tick publishes 0.  (a tick: the step that re-arms the sleep of
\* the started rate loop)
C12_Step ==
    (started /\ rate_wake' # rate_wake) =>
        /\ gauge'[1] = rate_window
        /\ gauge'[2] = IF now > rate_ts THEN (now - rate_ts) * Micro ELSE 1
        /\ gauge'[2] >= 1
        /\ rate_window' = 0
        /\ rate_ts' = now
        /\ predictions_total = consumed => gauge'[1] = 0

C12_TickPublishesRate == [][C12_Step]_vars

\* a tick has consumed recorded work, and the last tick, one period after
\* the one before it, found no work and published 0
C12_Witness ==
    /\ consumed >= 1
    /\ rate_window = 0
    /\ gauge = <<0, RatePeriod * Micro>>
    /\ rate_ts > RatePeriod

\* C13: every response produced for a request, whatever the endpoint, the
\* status code or the outcome of the handler, carries x-request-id: the
\* inbound value when one was sent, otherwise an identifier generated for
\* that request and different from the one generated for any other request.
C13_ResponseCarriesId ==
    \A r \in Ended :
        /\ req[r].resp_id.kind # "none"
        /\ req[r].resp_id = req[r].request_id
        /\ req[r].hdr # "absent" => req[r].resp_id.kind = "header"
        /\ req[r].hdr = "absent" =>
              /\ req[r].resp_id.kind = "uuid"
              /\ \A q \in Requests \ {r} : req[q].request_id # req[r].resp_id

\* C13 for the responses the interceptor returns itself (call_next returned)
C13_ReturnedCarriesId ==
    \A r \in Requests : req[r].pc = "responded" =>
        /\ req[r].resp_id = req[r].request_id
        /\ req[r].hdr # "absent" => req[r].resp_id.kind = "header"
        /\ req[r].hdr = "absent" =>
              /\ req[r].resp_id.kind = "uuid"
              /\ \A q \in Requests \ {r} : req[q].request_id # req[r].resp_id

\* C14: /metrics answers 200 to every request when no token is configured;
\* with a token configured it answers 403 to a request whose token is
\* missing or differs and 200 only to a request carrying exactly the
\* configured token, whatever the lifecycle state.
C14_MetricsAuth ==
    \A r \in Requests :
        (req[r].path = "/metrics" /\ req[r].pc \in {"returned", "responded"}) =>
            /\ metrics_token = "absent" => req[r].status = 200
            /\ metrics_token # "absent" =>
                  /\ req[r].creds = metrics_token => req[r].status = 200
                  /\ req[r].creds # metrics_token => req[r].status = 403

\* with a token configured, a request carrying it was answered 200 while a
\* /prestop call had cleared the ready flag and the drain was under way
C14_Witness ==
    /\ metrics_token = "secret"
    /\ \E r \in Requests :
         /\ req[r].path = "/metrics" /\ req[r].creds = "secret"
         /\ req[r].in_drain /\ req[r].in_prestop
         /\ req[r].pc = "responded" /\ req[r].status = 200

\* C15: a readiness query never answers 200, ready, at a moment when the
\* ready flag is false, also when /prestop or a termination signal cleared
\* the flag while the probes of the query were in flight.
C15_Step ==
    \A r \in Requests :
        (/\ req[r].path = "/ready"
         /\ req[r].pc # "returned" /\ req'[r].pc = "returned"
         /\ req'[r].status = 200) => ready'

C15_DrainingTakesPrecedence == [][C15_Step]_vars

\* C15 for the flag the query read on entry: a query that found the flag
\* false answers 503 and starts no probe
C15_FlagReadOnEntry ==
    \A r \in Requests :
        req[r].flag_read = "false" =>
            /\ req[r].pc \in {"returned", "responded"}
            /\ req[r].status = 503 /\ req[r].body_ready = "false"
            /\ req[r].db_tries = 0 /\ req[r].redis_tries = 0

\* C16: when the wait loop ended on active_requests = 0, active_requests is
\* 0 at each release step (HTTP client close, cache close, pool dispose): no
\* request is in the interceptor while a resource is released.
\* (a release step: the step that appends to release_log)
C16_Step ==
    (release_log' # release_log /\ wait_log'.end_active = 0) =>
        active_requests = 0

C16_NoTeardownUnderWork == [][C16_Step]_vars

\* the place of a step in the order of on_shutdown
Rank(x) == CASE x = "cancel" -> 1 [] x = "http" -> 2 [] x = "redis" -> 3
             [] x = "db" -> 4

\* C17: the cancel of the rate task and every release happen only after the
\* wait loop has ended, and always in the order cancel, HTTP client, cache,
\* pool; a resource that was never configured is skipped and the others
\* keep their order.
C17_ReleaseOrder ==
    /\ wait_log.end_at = -1 => release_log = <<>> /\ rate_task # "cancelled"
    /\ drain_pc \in {"idle", "waiting"} => wait_log.end_at = -1
    /\ wait_log.end_at # -1 =>
          /\ rate_task = "cancelled"
          /\ Len(release_log) >= 1 /\ release_log[1] = "cancel"
    /\ \A j, k \in 1..Len(release_log) :
          j < k => Rank(release_log[j]) < Rank(release_log[k])
    /\ Attempted \ {"cancel"} \subseteq Configured
    /\ drain_pc = "done" => Attempted = Configured \cup {"cancel"}
    /\ drain_pc = "closing_http" => release_log[Len(release_log)] = "http"
    /\ drain_pc = "closing_redis" =>
          /\ release_log[Len(release_log)] = "redis"
          /\ http => "http" \in Attempted

\* the loop waited for the count to reach 0, then the drain ran to its end
\* with the pool configured and the cache not: cancel, HTTP client, pool
C17_Witness ==
    /\ wait_log.zero_last # -1
    /\ drain_pc = "done"
    /\ db_engine /\ ~redis
    /\ release_log = <<"cancel", "http", "db">>

\* C18: from startup until the drain cancels it the rate aggregator ticks
\* once per period, whatever /prestop calls and termination signals do to
\* the flags: the task runs exactly while the service has started and the
\* wait loop of the drain has not ended, every period boundary up to now
\* has had its tick, and the next one is at most a period away.
C18_TicksUntilCancel ==
    /\ (rate_task = "running") = (started /\ wait_log.end_at = -1)
    /\ rate_task = "running" =>
          /\ rate_wake = rate_ts + RatePeriod
          /\ rate_ts % RatePeriod = 0
          /\ rate_ts <= now /\ now <= rate_wake

\* C18: after the one cancel of the drain the task stays cancelled, and no
\* step publishes to the gauge or resets the accumulator.
C18_Step ==
    rate_task = "cancelled" =>
        /\ rate_task' = "cancelled"
        /\ gauge' = gauge
        /\ consumed' = consumed
        /\ rate_ts' = rate_ts
        /\ rate_window' >= rate_window

C18_RateTaskLifetime == []C18_TicksUntilCancel /\ [][C18_Step]_vars

\* the loop ticked and consumed a record; after a signal the drain cancelled
\* it, the clock has passed the time of its next tick and a prediction
\* recorded meanwhile is still in the accumulator
C18_Witness ==
    /\ rate_task = "cancelled" /\ shutting_down
    /\ rate_ts >= RatePeriod /\ consumed >= 1
    /\ now > rate_wake
    /\ rate_window >= 1

\* C19: the signal handler sets ready = false and shutting_down = true and
\* changes nothing else: active_requests, the rate accumulator, its
\* timestamp and its task, the held resources and the requests are as
\* before, and the drain sequence is not started.  (the handler is the one
\* writer of shutting_down: its step is the one that sets the flag)
C19_Step ==
    (~shutting_down /\ shutting_down') =>
        /\ ~ready'
        /\ UNCHANGED <<active_requests, rate_window, rate_ts, rate_task,
                       rate_wake, gauge, consumed, predictions_total,
                       http, db_engine, redis, started, settings,
                       drain_pc, deadline, drain_wake, release_log, wait_log,
                       now, uuid_next, req, probe>>

C19_SignalFrame == [][C19_Step]_vars

\* a signal has arrived with a request in flight and a record in the
\* accumulator: the rate task runs, the client is held and no drain started
C19_Witness ==
    /\ shutting_down /\ ~ready
    /\ active_requests >= 1 /\ rate_window >= 1
    /\ rate_task = "running" /\ http
    /\ drain_pc = "idle" /\ release_log = <<>>

\* C20: readiness is monotone: once the ready flag is false it is false in
\* every later state, under any sequence of requests, readiness queries,
\* /prestop calls, signals, rate ticks and steps of the drain; the flag is
\* true only while no /prestop handler has run and no signal has arrived.
C20_Step == ~ready => ~ready'

C20_ReadyMonotone == [][C20_Step]_vars

\* a /prestop call cleared the flag and has answered after its delay, the
\* drain has run to its end, and the flag is still false with no signal
C20_Witness ==
    /\ ~ready /\ ~shutting_down
    /\ drain_pc = "done"
    /\ \E p \in Requests :
         req[p].path = "/prestop" /\ req[p].pc = "responded"


====
